---- MODULE Spec2Model ----
(***************************************************************************)
(* Ethernet (EthernetII and 802.3) frame codec of packet/eth/pkt.go:       *)
(* the Packet struct, its methods Make, Unpack, Pack, SetPayload,          *)
(* GetLength, PayloadType and Answers, and the EtherType translation       *)
(* table with its two lookups.                                             *)
(*                                                                         *)
(* A frame is a record with the fields of the Go struct.  EtherType and    *)
(* Length are uint16: every sum is taken modulo 2^16.  A packet.Type of    *)
(* the shared registry is modelled by its name (the enumerants are         *)
(* pairwise distinct, nothing else about their numbers is used).           *)
(***************************************************************************)
EXTENDS Integers, Sequences, FiniteSets, TLC

VARIABLES p, raw_pkt, err, hist, ans, conv

vars == <<p, raw_pkt, err, hist, ans, conv>>

(***************************************************************************)
(* Bound of the model: the number of method calls made on one frame after  *)
(* Make.                                                                   *)
(***************************************************************************)
MaxOps == 2

(***************************************************************************)
(* EtherType constants (pkt.go:50-61).                                     *)
(***************************************************************************)
None  == 0
ARP   == 2054
IPv4  == 2048
IPv6  == 34525
LLC   == 1
LLDP  == 35020
QinQ  == 34984
TRILL == 8947
VLAN  == 33024
WoL   == 2114

\* uint16 wrap-around
U16(x) == x % 65536

\* first value of the 16-bit field that is an EtherType, not an 802.3 length
EtherTypeMin == 1536

\* bytes of the fixed header
HeaderLen == 14

(***************************************************************************)
(* The canonical type registry of package packet: the enumerants this file *)
(* uses, by name.  "Eth" is the frame's own type; "Raw" and "Eth" have no  *)
(* entry in the translation table.                                         *)
(***************************************************************************)
PacketTypes ==
    {"None", "ARP", "IPv4", "IPv6", "LLC", "LLDP", "VLAN", "TRILL", "WoL",
     "Raw", "Eth"}

\* the nil packet.Packet interface value
NilPacket == [kind |-> "nil"]

\* a packet of another layer, reduced to what this file asks of it:
\* GetType() and GetLength()
Layer(t, l) == [kind |-> "pkt", type |-> t, length |-> l]

(***************************************************************************)
(* packet.Buffer, as far as this file uses it.  A buffer is the sequence   *)
(* of its unread bytes (reading) or of the bytes written so far (writing). *)
(* Buffer.Next hands out at most the bytes that are left; ReadI leaves its *)
(* target alone when fewer than two bytes are left.  Neither reports an    *)
(* error to its caller.                                                    *)
(***************************************************************************)
Min(a, b) == IF a < b THEN a ELSE b

BufferNext(buf, n) == SubSeq(buf, 1, Min(n, Len(buf)))

Advance(buf, n) == SubSeq(buf, Min(n, Len(buf)) + 1, Len(buf))

ReadI(buf, cur) == IF Len(buf) >= 2 THEN buf[1] * 256 + buf[2] ELSE cur

Write(buf, bytes) == buf \o bytes

WriteI(buf, v) == buf \o <<v \div 256, v % 256>>

(***************************************************************************)
(* The translation table and its lookups (pkt.go:157-190).                 *)
(***************************************************************************)
ethertype_to_type_map ==
    << <<None,  "None">>,
       <<ARP,   "ARP">>,
       <<IPv4,  "IPv4">>,
       <<IPv6,  "IPv6">>,
       <<LLC,   "LLC">>,
       <<LLDP,  "LLDP">>,
       <<VLAN,  "VLAN">>,
       <<QinQ,  "VLAN">>,
       <<TRILL, "TRILL">>,
       <<WoL,   "WoL">> >>

\* for _, t := range ethertype_to_type_map { if t[0] == ethertype { return t[1] } }
RECURSIVE ScanEtherType(_, _)
ScanEtherType(i, ethertype) ==
    IF i > Len(ethertype_to_type_map) THEN "Raw"
    ELSE IF ethertype_to_type_map[i][1] = ethertype
         THEN ethertype_to_type_map[i][2]
         ELSE ScanEtherType(i + 1, ethertype)

EtherTypeToType(ethertype) == ScanEtherType(1, ethertype)

\* for _, t := range ethertype_to_type_map { if t[1] == pkttype { return t[0] } }
RECURSIVE ScanType(_, _)
ScanType(i, pkttype) ==
    IF i > Len(ethertype_to_type_map) THEN None
    ELSE IF ethertype_to_type_map[i][2] = pkttype
         THEN ethertype_to_type_map[i][1]
         ELSE ScanType(i + 1, pkttype)

\* a lookup that lets a later entry replace an earlier one
RECURSIVE ScanTypeLast(_, _, _)
ScanTypeLast(i, pkttype, found) ==
    IF i > Len(ethertype_to_type_map) THEN found
    ELSE ScanTypeLast(i + 1, pkttype,
                      IF ethertype_to_type_map[i][2] = pkttype
                      THEN ethertype_to_type_map[i][1] ELSE found)

TypeToEtherType_LastMatch(pkttype) == ScanTypeLast(1, pkttype, None)

TypeToEtherType(pkttype) == ScanType(1, pkttype)

(***************************************************************************)
(* The frame (pkt.go:40-46) and its methods.                               *)
(***************************************************************************)
ZeroAddr == <<0, 0, 0, 0, 0, 0>>

Make ==
    [kind        |-> "eth",
     DstAddr     |-> ZeroAddr,
     SrcAddr     |-> ZeroAddr,
     Type        |-> None,
     Length      |-> HeaderLen,
     pkt_payload |-> NilPacket]

\* GetType of any packet.Packet
GetType(pkt) == IF pkt.kind = "eth" THEN "Eth" ELSE pkt.type

GetLength_NoHeader(f) ==
    IF f.Length > 0 /\ f.Type = LLC THEN f.Length
    ELSE IF f.pkt_payload # NilPacket THEN f.pkt_payload.length
    ELSE HeaderLen

GetLength(f) ==
    IF f.Length > 0 /\ f.Type = LLC THEN f.Length
    ELSE IF f.pkt_payload # NilPacket THEN U16(f.pkt_payload.length + HeaderLen)
    ELSE HeaderLen

Pack_SrcFirst(f, raw) ==
    [raw_pkt |-> WriteI(Write(Write(raw, f.SrcAddr), f.DstAddr),
                        IF f.Type # LLC THEN f.Type ELSE f.Length),
     err     |-> "nil"]

\* writes DstAddr, SrcAddr and the 16-bit field; returns nil
Pack(f, raw) ==
    [raw_pkt |-> WriteI(Write(Write(raw, f.DstAddr), f.SrcAddr),
                        IF f.Type # LLC THEN f.Type ELSE f.Length),
     err     |-> "nil"]

Unpack_Max1500(f, raw) ==
    LET r1 == Advance(raw, 6)
        r2 == Advance(r1, 6)
        t  == ReadI(r2, f.Type)
    IN  [p       |-> [f EXCEPT !.DstAddr = BufferNext(raw, 6),
                               !.SrcAddr = BufferNext(r1, 6),
                               !.Type    = IF t <= 1500 THEN LLC ELSE t,
                               !.Length  = IF t <= 1500 THEN t ELSE @],
         raw_pkt |-> Advance(r2, 2),
         err     |-> "nil"]

\* reads both addresses and the 16-bit field; the only return is "return nil"
Unpack(f, raw) ==
    LET r1 == Advance(raw, 6)
        r2 == Advance(r1, 6)
        t  == ReadI(r2, f.Type)
    IN  [p       |-> [f EXCEPT !.DstAddr = BufferNext(raw, 6),
                               !.SrcAddr = BufferNext(r1, 6),
                               !.Type    = IF t < EtherTypeMin THEN LLC ELSE t,
                               !.Length  = IF t < EtherTypeMin THEN t ELSE @],
         raw_pkt |-> Advance(r2, 2),
         err     |-> "nil"]

Payload(f) == f.pkt_payload

PayloadType(f) == EtherTypeToType(f.Type)

SetPayload_Reset(f, pl) ==
    [f EXCEPT !.pkt_payload = pl,
              !.Type        = TypeToEtherType(GetType(pl)),
              !.Length      = U16(HeaderLen + pl.length)]

SetPayload_KeepType(f, pl) ==
    [f EXCEPT !.pkt_payload = pl,
              !.Length      = U16(@ + pl.length)]

SetPayload(f, pl) ==
    [f EXCEPT !.pkt_payload = pl,
              !.Type        = TypeToEtherType(GetType(pl)),
              !.Length      = U16(@ + pl.length)]

Answers_NoTypeCheck(f, other, plres) ==
    IF other = NilPacket \/ GetType(other) # "Eth" THEN FALSE
    ELSE IF Payload(f) # NilPacket THEN plres
    ELSE TRUE

Answers_Symmetric(f, other, plres) ==
    IF other = NilPacket \/ GetType(other) # "Eth" THEN FALSE
    ELSE IF f.Type # other.Type THEN FALSE
    ELSE IF Payload(f) # NilPacket THEN plres
    ELSE Payload(other) = NilPacket

\* plres is what p.Payload().Answers(other.Payload()) returns when it is called
Answers(f, other, plres) ==
    IF other = NilPacket \/ GetType(other) # "Eth" THEN FALSE
    ELSE IF f.Type # other.Type THEN FALSE
    ELSE IF Payload(f) # NilPacket THEN plres
    ELSE TRUE

(***************************************************************************)
(* Inputs.                                                                 *)
(***************************************************************************)
AddrA == <<170, 187, 204, 221, 238, 255>>
AddrB == <<0, 17, 34, 51, 68, 85>>

Header(dst, src, v) == dst \o src \o <<v \div 256, v % 256>>

\* the 16-bit field of a header that was read in full
FieldOf(raw) == raw[13] * 256 + raw[14]

TableEtherTypes ==
    {ethertype_to_type_map[i][1] : i \in 1..Len(ethertype_to_type_map)}

TableTypes ==
    {ethertype_to_type_map[i][2] : i \in 1..Len(ethertype_to_type_map)}

\* values of the 16-bit field: EtherTypes in and out of the table, 802.3 lengths
WireValues == {IPv4, QinQ, 4660, 0, 5, 32}

\* payload lengths, the last two beyond 65535 - 14
Lengths == {0, 20, 65522, 65535}

Payloads == {Layer(t, l) : t \in PacketTypes, l \in Lengths}

FullBuffers ==
    {Header(AddrA, AddrB, v) : v \in WireValues}
        \cup {Header(AddrB, AddrA, v) : v \in {IPv4, 32}}
        \cup {Header(AddrA, AddrB, IPv4) \o <<69, 0>>}

\* truncated input: every size 0..13
ShortBuffers == {SubSeq(Header(AddrA, AddrB, IPv4), 1, n) : n \in 0..13}

Buffers == FullBuffers \cup ShortBuffers

Call(op, raw, pl) == [op |-> op, raw |-> raw, pl |-> pl, pre |-> p]

NoAnswer == [called |-> FALSE]

NoConv == [fn |-> "none"]

(***************************************************************************)
(* State: p is the frame, raw_pkt the buffer the last Pack or Unpack left, *)
(* err what the last method returned, hist the calls made on p since Make  *)
(* (each with its arguments and the frame it found), ans the last Answers  *)
(* call, conv the last table lookup.                                       *)
(***************************************************************************)
Init ==
    /\ p = Make
    /\ raw_pkt = <<>>
    /\ err = "none"
    /\ hist = <<>>
    /\ ans = NoAnswer
    /\ conv = NoConv

DoMake ==
    /\ hist # <<>>
    /\ p' = Make
    /\ raw_pkt' = <<>>
    /\ err' = "none"
    /\ hist' = <<>>
    /\ UNCHANGED <<ans, conv>>

DoUnpack(raw) ==
    /\ p' = Unpack(p, raw).p
    /\ raw_pkt' = Unpack(p, raw).raw_pkt
    /\ err' = Unpack(p, raw).err
    /\ hist' = Append(hist, Call("Unpack", raw, NilPacket))
    /\ UNCHANGED <<ans, conv>>

DoPack ==
    /\ raw_pkt' = Pack(p, <<>>).raw_pkt
    /\ err' = Pack(p, <<>>).err
    /\ hist' = Append(hist, Call("Pack", <<>>, NilPacket))
    /\ UNCHANGED <<p, ans, conv>>

DoSetPayload(pl) ==
    /\ p' = SetPayload(p, pl)
    /\ err' = "nil"
    /\ hist' = Append(hist, Call("SetPayload", <<>>, pl))
    /\ UNCHANGED <<raw_pkt, ans, conv>>

Next ==
    \/ DoMake
    \/ Len(hist) < MaxOps /\ \E raw \in Buffers : DoUnpack(raw)
    \/ Len(hist) < MaxOps /\ \E pl \in Payloads : DoSetPayload(pl)
    \/ Len(hist) < MaxOps /\ DoPack

Spec == Init /\ [][Next]_vars

(***************************************************************************)
(* The decoding pipeline: Make, Unpack of one full header, then either     *)
(* Pack at once, or SetPayload of the layer PayloadType() selects and then *)
(* Pack.  The 16-bit field ranges over every 802.3 length, the values      *)
(* around the 0x0600 limit, the table and a sample of other EtherTypes.    *)
(***************************************************************************)
PipelineValues ==
    {v \in 0..65535 : v < 1552 \/ v \in TableEtherTypes \/ v % 257 = 0}

PipelineBuffers ==
    {Header(AddrA, AddrB, v) : v \in PipelineValues}
        \cup {Header(AddrB, ZeroAddr, v) : v \in TableEtherTypes}

PipelineLengths == {0, 20, 65530}

NextPipeline ==
    \/ hist = <<>> /\ \E raw \in PipelineBuffers : DoUnpack(raw)
    \/ Len(hist) = 1 /\ \E l \in PipelineLengths :
                            DoSetPayload(Layer(PayloadType(p), l))
    \/ Len(hist) \in {1, 2} /\ hist[Len(hist)].op # "Pack" /\ DoPack

SpecPipeline == Init /\ [][NextPipeline]_vars

(***************************************************************************)
(* The table lookups on their own, over every 16-bit EtherType and every   *)
(* canonical type.                                                         *)
(***************************************************************************)
DoEtherTypeToType(e) ==
    /\ conv' = [fn |-> "EtherTypeToType", arg |-> e, res |-> EtherTypeToType(e)]
    /\ UNCHANGED <<p, raw_pkt, err, hist, ans>>

DoTypeToEtherType(t) ==
    /\ conv' = [fn |-> "TypeToEtherType", arg |-> t, res |-> TypeToEtherType(t)]
    /\ UNCHANGED <<p, raw_pkt, err, hist, ans>>

\* PayloadType() of a frame whose Type is e, then SetPayload of such a layer
DoThereAndBack(e) ==
    /\ conv' = [fn  |-> "ThereAndBack", arg |-> e,
                res |-> TypeToEtherType(EtherTypeToType(e))]
    /\ UNCHANGED <<p, raw_pkt, err, hist, ans>>

NextTable ==
    \/ conv = NoConv /\ \E e \in 0..65535 : DoEtherTypeToType(e)
    \/ conv = NoConv /\ \E t \in PacketTypes : DoTypeToEtherType(t)
    \/ conv = NoConv /\ \E e \in 0..65535 : DoThereAndBack(e)

SpecTable == Init /\ [][NextTable]_vars

(***************************************************************************)
(* Answers: the frame p is built, then asked whether it answers a          *)
(* candidate, and the candidate (when it is a frame) whether it answers p. *)
(* The candidate is nil, a packet of another layer, or a frame built by    *)
(* the same methods.  What the payload's own Answers returns is an input.  *)
(***************************************************************************)
AnswerValues == {IPv4, ARP, 32}

AnswerPayloads == {Layer("IPv4", 20), Layer("ARP", 28), Layer("LLC", 3)}

AnswerBuffers == {Header(AddrA, AddrB, v) : v \in AnswerValues}

OtherFrames ==
    LET unpacked == {Unpack(Make, Header(AddrB, AddrA, v)).p : v \in AnswerValues}
    IN  {Make} \cup unpacked
            \cup {SetPayload(f, pl) : f \in {Make} \cup unpacked,
                                      pl \in AnswerPayloads}

OtherPackets == {NilPacket} \cup AnswerPayloads \cup OtherFrames

\* whether f.Answers(other) gets as far as asking f's payload
AsksPayload(f, other) ==
    /\ other # NilPacket
    /\ GetType(other) = "Eth"
    /\ f.Type = other.Type
    /\ Payload(f) # NilPacket

PayloadResults(f, other) == IF AsksPayload(f, other) THEN BOOLEAN ELSE {FALSE}

DoAnswers(other, plres) ==
    /\ ans' = [called |-> TRUE, self |-> p, other |-> other, plres |-> plres,
               res |-> Answers(p, other, plres),
               backCalled |-> FALSE, backPlres |-> FALSE, back |-> FALSE]
    /\ UNCHANGED <<p, raw_pkt, err, hist, conv>>

DoAnswersBack(plres) ==
    /\ ans.called
    /\ ~ans.backCalled
    /\ ans.other.kind = "eth"
    /\ ans' = [ans EXCEPT !.backCalled = TRUE, !.backPlres = plres,
                          !.back = Answers(ans.other, ans.self, plres)]
    /\ UNCHANGED <<p, raw_pkt, err, hist, conv>>

NextAnswers ==
    \/ /\ ans = NoAnswer
       /\ Len(hist) < MaxOps
       /\ \E raw \in AnswerBuffers : DoUnpack(raw)
    \/ /\ ans = NoAnswer
       /\ Len(hist) < MaxOps
       /\ \E pl \in AnswerPayloads : DoSetPayload(pl)
    \/ \E other \in OtherPackets :
           \E plres \in PayloadResults(p, other) : DoAnswers(other, plres)
    \/ /\ ans.called
       /\ ans.other.kind = "eth"
       /\ \E plres \in PayloadResults(ans.other, ans.self) : DoAnswersBack(plres)

SpecAnswers == Init /\ [][NextAnswers]_vars

(***************************************************************************)
(* Properties.                                                             *)
(***************************************************************************)
Last == hist[Len(hist)]

\* the calls made since Make are exactly these methods, in this order
Called(ops) ==
    /\ Len(hist) = Len(ops)
    /\ \A i \in 1..Len(ops) : hist[i].op = ops[i]

\* the 16-bit field of the header given to the first call, an Unpack
WireField == FieldOf(hist[1].raw)

\* the EtherType of the first table entry whose canonical type is t
FirstEntryFor(t) ==
    IF t \in TableTypes
    THEN LET i == CHOOSE k \in 1..Len(ethertype_to_type_map) :
                      /\ ethertype_to_type_map[k][2] = t
                      /\ \A j \in 1..(k - 1) : ethertype_to_type_map[j][2] # t
         IN  ethertype_to_type_map[i][1]
    ELSE 0

\* C1: an Unpack that finds fewer than 14 bytes returns BufferUnderrun and
\* leaves every field of the frame as it was before the call.
C1_ShortUnpackFailsWhole ==
    (hist # <<>> /\ Last.op = "Unpack" /\ Len(Last.raw) < 14)
        => (err = "BufferUnderrun" /\ p = Last.pre)

\* C2 as claimed: Unpack of a 14-byte header with a table EtherType >= 0x0600
\* into a fresh frame, then Pack, writes the 14 bytes read, except that QinQ
\* is written as VLAN.
C2_HeaderRoundTripQinQLossy ==
    (Called(<<"Unpack", "Pack">>) /\ WireField >= 1536
        /\ WireField \in TableEtherTypes)
        => raw_pkt = IF WireField = QinQ
                     THEN SubSeq(hist[1].raw, 1, 12) \o <<VLAN \div 256, VLAN % 256>>
                     ELSE hist[1].raw

\* C2 amended: Unpack of a 14-byte header with a table EtherType >= 0x0600
\* into a fresh frame, then Pack, writes exactly the 14 bytes read, QinQ
\* included.
C2_HeaderRoundTripExact ==
    (Called(<<"Unpack", "Pack">>) /\ WireField >= 1536
        /\ WireField \in TableEtherTypes)
        => raw_pkt = hist[1].raw

C2_Witness ==
    /\ Called(<<"Unpack", "Pack">>)
    /\ hist[1].pre = Make
    /\ WireField = QinQ
    /\ FieldOf(raw_pkt) = QinQ
    /\ SubSeq(raw_pkt, 1, 6) = AddrA

\* C3: Unpack of a header whose 16-bit field v is below 0x0600 sets Type to
\* the LLC sentinel (PayloadType() is the LLC type) and Length to v, and a
\* Pack that follows writes v as the 16-bit field.
C3_LengthFieldRoundTrip ==
    (hist # <<>> /\ hist[1].op = "Unpack" /\ WireField < 1536)
        => /\ Len(hist) = 1 =>
                (p.Type = 1 /\ PayloadType(p) = "LLC" /\ p.Length = WireField)
           /\ Called(<<"Unpack", "Pack">>) =>
                (p.Type = 1 /\ p.Length = WireField
                    /\ Len(raw_pkt) = 14 /\ FieldOf(raw_pkt) = WireField)

C3_Witness ==
    /\ Called(<<"Unpack", "Pack">>)
    /\ WireField = 1535
    /\ FieldOf(raw_pkt) = 1535
    /\ p.Length = 1535

\* C4: after any sequence of Unpack and SetPayload calls on a frame from Make,
\* GetLength() is at least 14.  Stated here for the calls that cannot be
\* blamed on their input: every Unpack read a complete header, and no payload
\* is long enough for 14 + L to leave uint16.
C4_GetLengthAtLeastHeader ==
    (\A i \in 1..Len(hist) :
        \/ hist[i].op = "Unpack" /\ Len(hist[i].raw) >= 14
        \/ hist[i].op = "SetPayload" /\ hist[i].pl.length <= 65521)
        => GetLength(p) >= 14

C9_GetLengthDoubleCounts ==
    Called(<<"SetPayload", "SetPayload">>)
        => GetLength(p) = (14 + hist[1].pl.length + hist[2].pl.length) % 65536

\* C9 amended: after SetPayload(p1), SetPayload(p2) on a fresh frame the Length
\* field is 14 + L1 + L2 in uint16 arithmetic; GetLength() returns that sum
\* only when p2's type is LLC and the sum is not 0, and 14 + L2 otherwise.
C9_LengthFieldDoubleCounts ==
    Called(<<"SetPayload", "SetPayload">>)
        => LET sum == (14 + hist[1].pl.length + hist[2].pl.length) % 65536
           IN  /\ p.Length = sum
               /\ GetLength(p) = IF hist[2].pl.type = "LLC" /\ sum > 0
                                 THEN sum
                                 ELSE (14 + hist[2].pl.length) % 65536

C9_Witness ==
    /\ Called(<<"SetPayload", "SetPayload">>)
    /\ hist[1].pl = Layer("IPv4", 20)
    /\ hist[2].pl = Layer("IPv4", 20)
    /\ p.Length = 54
    /\ GetLength(p) = 34

\* C10 as claimed: Make, Unpack of a header with field v, SetPayload of a layer
\* of type PayloadType(), Pack: the field written is v, or VLAN when v is QinQ.
C10_PipelineKeepsField ==
    Called(<<"Unpack", "SetPayload", "Pack">>)
        => FieldOf(raw_pkt) = IF WireField = QinQ THEN VLAN ELSE WireField

\* C10 amended: in that pipeline the field written is v for a table EtherType
\* >= 0x0600 other than QinQ, VLAN for QinQ, None (0) for an EtherType
\* >= 0x0600 that is not in the table, and v + L modulo 2^16 for v < 0x0600.
C10_PipelineField ==
    Called(<<"Unpack", "SetPayload", "Pack">>)
        => FieldOf(raw_pkt) =
               IF WireField < 1536 THEN (WireField + hist[2].pl.length) % 65536
               ELSE IF WireField = QinQ THEN VLAN
               ELSE IF WireField \in TableEtherTypes THEN WireField
               ELSE 0

C10_Witness ==
    /\ Called(<<"Unpack", "SetPayload", "Pack">>)
    /\ WireField = QinQ
    /\ hist[2].pl = Layer("VLAN", 20)
    /\ FieldOf(raw_pkt) = VLAN

\* C6: EtherTypeToType gives Raw for every EtherType outside the table and the
\* entry's type inside it; TypeToEtherType gives None for every type outside
\* the table and the first entry's EtherType inside it; going there and back
\* gives e for every table EtherType e except QinQ, which gives VLAN.
C6_TableLookups ==
    /\ conv.fn = "EtherTypeToType" =>
          IF conv.arg \in TableEtherTypes
          THEN <<conv.arg, conv.res>> \in
                   {ethertype_to_type_map[i] : i \in 1..Len(ethertype_to_type_map)}
          ELSE conv.res = "Raw"
    /\ conv.fn = "TypeToEtherType" =>
          conv.res = FirstEntryFor(conv.arg)
    /\ (conv.fn = "ThereAndBack" /\ conv.arg \in TableEtherTypes) =>
          conv.res = IF conv.arg = QinQ THEN VLAN ELSE conv.arg

C6_Witness ==
    /\ conv.fn = "ThereAndBack"
    /\ conv.arg = QinQ
    /\ conv.res = VLAN

\* the candidate of the last Answers call is a frame of the same Type as the
\* receiver
SameType ==
    /\ ans.other # NilPacket
    /\ ans.other.kind = "eth"
    /\ ans.other.Type = ans.self.Type

\* C7: Answers(other) is false when other is nil, when other is not an
\* Ethernet frame, and when other is a frame of another Type.
C7_AnswersRejects ==
    (ans.called /\ ~SameType) => ans.res = FALSE

C7_Witness ==
    /\ ans.called
    /\ ans.other # NilPacket
    /\ ans.other.kind = "eth"
    /\ ans.other.Type # ans.self.Type
    /\ ans.self.pkt_payload = NilPacket
    /\ ans.res = FALSE

\* C8: between frames of equal Type, Answers is true when the receiver has no
\* payload and is what the receiver's payload answers otherwise, in either
\* direction.
C8_AnswersByPayload ==
    (ans.called /\ SameType)
        => /\ ans.res = IF ans.self.pkt_payload = NilPacket THEN TRUE ELSE ans.plres
           /\ ans.backCalled =>
                 ans.back = IF ans.other.pkt_payload = NilPacket THEN TRUE
                            ELSE ans.backPlres

\* a.Answers(b) holds while b.Answers(a) does not
C8_Witness ==
    /\ ans.called
    /\ ans.backCalled
    /\ SameType
    /\ ans.self.pkt_payload = NilPacket
    /\ ans.other.pkt_payload # NilPacket
    /\ ans.res = TRUE
    /\ ans.back = FALSE

====
